---- MODULE Spec2Model ----
(***************************************************************************)
(* Model of scripts/verify_linear_regression.py: least-squares regression, *)
(* population standard deviation, coefficient-of-variation confidence,     *)
(* trend classification and multi-period forecasting.                      *)
(*                                                                         *)
(* Numbers.  The script computes with Python floats.  Here the inputs are  *)
(* integers and every arithmetic step is carried out exactly:              *)
(*   - a float that is a rational function of the inputs is a normalised   *)
(*     fraction [num, den] (den > 0, gcd 1);                               *)
(*   - a float that depends on math.sqrt is a "surd" [p, q, r] standing    *)
(*     for p + q*sqrt(r) with p, q, r fractions, r >= 0.                   *)
(* round() is Python 3's round-half-to-even.  Rounding error of the IEEE   *)
(* operations themselves is not modelled.                                  *)
(***************************************************************************)
EXTENDS Integers, Sequences, FiniteSets, TLC

\* Bounds of the explored inputs.
MaxLen == 4
MaxVal == 2
MaxPeriods == 3
MaxTrendLen == 5
MaxTrendVal == 3

----------------------------------------------------------------------------
\* Exact fractions.

Abs(n) == IF n < 0 THEN -n ELSE n

RECURSIVE GCD(_, _)
GCD(a, b) == IF b = 0 THEN a ELSE GCD(b, a % b)

Rat(n, d) ==
    LET g == GCD(Abs(n), Abs(d))
        s == IF d < 0 THEN -1 ELSE 1
    IN  [num |-> (s * n) \div g, den |-> (s * d) \div g]

RInt(k) == [num |-> k, den |-> 1]
RAdd(a, b) ==
    LET g == GCD(a.den, b.den)
    IN  Rat(a.num * (b.den \div g) + b.num * (a.den \div g), (a.den \div g) * b.den)
RNeg(a) == [num |-> -a.num, den |-> a.den]
RSub(a, b) == RAdd(a, RNeg(b))
RMul(a, b) ==
    LET g1 == GCD(Abs(a.num), b.den)
        g2 == GCD(Abs(b.num), a.den)
    IN  Rat((a.num \div g1) * (b.num \div g2), (a.den \div g2) * (b.den \div g1))
RDiv(a, b) == RMul(a, Rat(b.den, b.num))
RLess(a, b) ==
    LET g == GCD(a.den, b.den)
    IN  a.num * (b.den \div g) < b.num * (a.den \div g)
RLeq(a, b) == ~RLess(b, a)
RMax(a, b) == IF RLess(a, b) THEN b ELSE a
RSign(a) == IF a.num > 0 THEN 1 ELSE IF a.num < 0 THEN -1 ELSE 0

RECURSIVE RPow(_, _)
RPow(a, k) == IF k = 0 THEN RInt(1) ELSE RMul(a, RPow(a, k - 1))

\* Python round(x) for a float x: nearest integer, ties to the even one.
RRound(a) ==
    LET twice == 2 * a.num + a.den
        k     == twice \div (2 * a.den)
        tie   == twice % (2 * a.den) = 0
    IN  IF tie /\ k % 2 # 0 THEN k - 1 ELSE k

----------------------------------------------------------------------------
\* Values p + q*sqrt(r).

Surd(p, q, r) == [p |-> p, q |-> q, r |-> r]
SConst(c) == Surd(c, RInt(0), RInt(0))
SSqrt(r) == Surd(RInt(0), RInt(1), r)
SDivR(x, c) == Surd(RDiv(x.p, c), RDiv(x.q, c), x.r)
SMulR(x, c) == Surd(RMul(x.p, c), RMul(x.q, c), x.r)
RSubS(c, x) == Surd(RSub(c, x.p), RNeg(x.q), x.r)

\* Sign of x - c for a surd x and a fraction c:
\* x - c = a + q*sqrt(r) = q * (sqrt(r) - t) with a = p - c and t = -a/q.
SSignVs(x, c) ==
    LET a == RSub(x.p, c)
    IN  IF x.q.num = 0 \/ x.r.num = 0 THEN RSign(a)
        ELSE LET t  == RNeg(RDiv(a, x.q))
                 t2 == RMul(t, t)
                 root_vs_t == IF t.num <= 0 \/ RLess(t2, x.r) THEN 1
                              ELSE IF t2 = x.r THEN 0 ELSE -1
             IN  RSign(x.q) * root_vs_t

SMaxR(c, x) == IF SSignVs(x, c) > 0 THEN x ELSE SConst(c)
SMinR(c, x) == IF SSignVs(x, c) < 0 THEN x ELSE SConst(c)

\* Largest k in lo..hi with x >= k - 1/2 (lo satisfies it).
RECURSIVE SHalfFloor(_, _, _)
SHalfFloor(x, lo, hi) ==
    IF lo = hi THEN lo
    ELSE LET mid == (lo + hi + 1) \div 2
         IN  IF SSignVs(x, Rat(2 * mid - 1, 2)) >= 0
             THEN SHalfFloor(x, mid, hi)
             ELSE SHalfFloor(x, lo, mid - 1)

\* Largest m in lo..hi with m*m <= n.
RECURSIVE ISqrt(_, _, _)
ISqrt(n, lo, hi) ==
    IF lo = hi THEN lo
    ELSE LET mid == (lo + hi + 1) \div 2
         IN  IF mid * mid <= n THEN ISqrt(n, mid, hi) ELSE ISqrt(n, lo, mid - 1)

\* Python round(x) for a float x that is a surd.  With b = q*q*r and
\* m = floor(sqrt(floor(b))), x lies within 2 of floor(p) + sign(q)*m.
SRound(x) ==
    LET b    == RMul(RMul(x.q, x.q), x.r)
        fb   == b.num \div b.den
        m    == ISqrt(fb, 0, fb)
        near == (x.p.num \div x.p.den) + RSign(x.q) * m
        k    == SHalfFloor(x, near - 3, near + 3)
        tie  == SSignVs(x, Rat(2 * k - 1, 2)) = 0
    IN  IF tie /\ k % 2 # 0 THEN k - 1 ELSE k

----------------------------------------------------------------------------
\* linear_regression

Zero == RInt(0)
Hundred == RInt(100)

\* slip: the sum of x instead of the sum of x squared
SquareOfXLinear(x) == x

SquareOfX(x) == x * x

\* The sums after the first k rounds of the loop over enumerate(values).
RECURSIVE RegressionSums(_, _)
RegressionSums(values, k) ==
    IF k = 0
    THEN [sum_x |-> 0, sum_y |-> 0, sum_xy |-> 0, sum_x2 |-> 0]
    ELSE LET prev == RegressionSums(values, k - 1)
             x    == k - 1
             y    == values[k]
         IN  [sum_x  |-> prev.sum_x + x,
              sum_y  |-> prev.sum_y + y,
              sum_xy |-> prev.sum_xy + x * y,
              sum_x2 |-> prev.sum_x2 + SquareOfX(x)]

Denominator(values) ==
    LET n == Len(values)
        s == RegressionSums(values, n)
    IN  n * s.sum_x2 - s.sum_x * s.sum_x

\* slip: sign of the slope term
InterceptPlus(sum_y, slope, sum_x, n) ==
    RDiv(RAdd(RInt(sum_y), RMul(slope, RInt(sum_x))), RInt(n))

Intercept(sum_y, slope, sum_x, n) ==
    RDiv(RSub(RInt(sum_y), RMul(slope, RInt(sum_x))), RInt(n))

\* guard records which return statement was taken.
linear_regression(values) ==
    IF Len(values) < 2
    THEN [slope |-> Zero, intercept |-> Zero, guard |-> "too_short"]
    ELSE LET n == Len(values)
             s == RegressionSums(values, n)
             denominator == Denominator(values)
         IN  IF denominator = 0
             THEN [slope |-> Zero, intercept |-> Zero, guard |-> "denominator_zero"]
             ELSE LET slope == Rat(n * s.sum_xy - s.sum_x * s.sum_y, denominator)
                  IN  [slope |-> slope,
                       intercept |-> Intercept(s.sum_y, slope, s.sum_x, n),
                       guard |-> "none"]

----------------------------------------------------------------------------
\* standard_deviation, calculate_confidence

RECURSIVE Sum(_, _)
Sum(values, k) == IF k = 0 THEN 0 ELSE Sum(values, k - 1) + values[k]

RECURSIVE SumSquareDiffs(_, _, _)
SumSquareDiffs(values, avg, k) ==
    IF k = 0 THEN Zero
    ELSE LET d == RSub(RInt(values[k]), avg)
         IN  RAdd(SumSquareDiffs(values, avg, k - 1), RMul(d, d))

standard_deviation(values) ==
    IF Len(values) = 0 THEN SConst(Zero)
    ELSE LET avg == Rat(Sum(values, Len(values)), Len(values))
             avg_square_diff ==
                 RDiv(SumSquareDiffs(values, avg, Len(values)), RInt(Len(values)))
         IN  SSqrt(avg_square_diff)

\* slip: no upper clamp
ConfidenceClampNoMin(cv) == SMaxR(Zero, RSubS(Hundred, SMulR(cv, Hundred)))

\* max(0, min(100, 100 - (cv * 100)))
ConfidenceClamp(cv) == SMaxR(Zero, SMinR(Hundred, RSubS(Hundred, SMulR(cv, Hundred))))

calculate_confidence(values) ==
    IF Len(values) = 0 THEN 0
    ELSE LET std_dev == standard_deviation(values)
             avg     == Rat(Sum(values, Len(values)), Len(values))
         IN  IF avg = Zero THEN 0
             ELSE SRound(ConfidenceClamp(SDivR(std_dev, avg)))

----------------------------------------------------------------------------
\* predict_next_value

\* slip: the regression's minimum length instead of 3
TooFewForPredictionTwo(historical_values) == Len(historical_values) < 2

TooFewForPrediction(historical_values) == Len(historical_values) < 3

Threshold(avg) == RMul(avg, Rat(5, 100))

\* slip: inclusive threshold
IsIncreasingInclusive(slope, avg) == RLeq(Threshold(avg), slope)

IsIncreasing(slope, avg) == RLess(Threshold(avg), slope)
IsDecreasing(slope, avg) == RLess(slope, Threshold(RNeg(avg)))

Trend(slope, avg) ==
    IF IsIncreasing(slope, avg) THEN "increasing"
    ELSE IF IsDecreasing(slope, avg) THEN "decreasing"
    ELSE "stable"

PredictClamp(predicted_value) == RMax(Zero, predicted_value)

predict_next_value(historical_values) ==
    IF TooFewForPrediction(historical_values)
    THEN [predicted_value |-> Zero, confidence |-> 0, trend |-> "stable",
          slope |-> Zero, intercept |-> Zero]
    ELSE LET fit == linear_regression(historical_values)
             next_index == Len(historical_values)
             predicted_value ==
                 RAdd(RMul(fit.slope, RInt(next_index)), fit.intercept)
             confidence == calculate_confidence(historical_values)
             avg == Rat(Sum(historical_values, Len(historical_values)),
                        Len(historical_values))
         IN  [predicted_value |-> PredictClamp(predicted_value),
              confidence |-> confidence,
              trend |-> Trend(fit.slope, avg),
              slope |-> fit.slope,
              intercept |-> fit.intercept]

----------------------------------------------------------------------------
\* forecast_revenue, one definition per statement of the loop body

\* round(x * 100) / 100
Round2(x) == Rat(RRound(RMul(x, Hundred)), 100)

Mean(historical_values) ==
    IF Len(historical_values) > 0
    THEN Rat(Sum(historical_values, Len(historical_values)), Len(historical_values))
    ELSE Zero

\* slip: off by one
ForecastNextIndexOffByOne(historical_values, i) == Len(historical_values) + i

ForecastNextIndex(historical_values, i) == Len(historical_values) + i - 1

\* slip: no clamp at 0
ForecastPredictedUnclamped(slope, intercept, next_index) ==
    RAdd(RMul(slope, RInt(next_index)), intercept)

ForecastPredicted(slope, intercept, next_index) ==
    RMax(Zero, RAdd(RMul(slope, RInt(next_index)), intercept))

\* slip: growth instead of decay
DecayFactorGrowing(i) == RPow(Rat(11, 10), i - 1)

DecayFactor(i) == RPow(Rat(9, 10), i - 1)

\* slip: a negative mean treated like a zero mean
HasPositiveMean(avg) == RLess(Zero, avg)

HasMean(avg) == avg # Zero

ForecastConfidence(std_dev, avg, i) ==
    IF HasMean(avg)
    THEN LET cv == SDivR(std_dev, avg)
             base_confidence ==
                 SMaxR(Zero, SMinR(Hundred, RSubS(Hundred, SMulR(cv, Hundred))))
         IN  SRound(SMulR(base_confidence, DecayFactor(i)))
    ELSE 0

\* slip: the rounded 'value' is accumulated
AddRoundedToTotal(total_predicted, predicted_value) ==
    RAdd(total_predicted, Round2(predicted_value))

AddToTotal(total_predicted, predicted_value) == RAdd(total_predicted, predicted_value)

----------------------------------------------------------------------------
\* The caller: one series, on which the functions are called one after the
\* other (they are pure, so the order does not matter to any result).

VARIABLES
    historical_values,  \* the series handed to every function
    pc,                 \* the call (or loop position) that comes next
    fit,                \* what linear_regression returned
    confidence,         \* what calculate_confidence returned
    prediction,         \* what predict_next_value returned
    periods_ahead,      \* forecast_revenue's argument
    slope, intercept,   \* forecast_revenue's locals
    std_dev, avg,
    i, forecasts, total_predicted,
    result              \* what forecast_revenue returned

vars == <<historical_values, pc, fit, confidence, prediction, periods_ahead,
          slope, intercept, std_dev, avg, i, forecasts, total_predicted, result>>

forecast_locals == <<periods_ahead, slope, intercept, std_dev, avg, i, forecasts,
                     total_predicted, result>>

SeriesOver(lo, hi, vals) == UNION {[1..n -> vals] : n \in lo..hi}

\* Series of one sign: magnitudes 0..MaxTrendVal, all negated or none.
OneSignSeries ==
    {[k \in DOMAIN m |-> sign * m[k]] :
        m \in SeriesOver(3, MaxTrendLen, 0..MaxTrendVal), sign \in {1, -1}}

NotCalled ==
    /\ fit = [slope |-> Zero, intercept |-> Zero, guard |-> "not_called"]
    /\ confidence = 0
    /\ prediction = [predicted_value |-> Zero, confidence |-> 0, trend |-> "not_called",
                     slope |-> Zero, intercept |-> Zero]
    /\ periods_ahead = 0
    /\ slope = Zero
    /\ intercept = Zero
    /\ std_dev = SConst(Zero)
    /\ avg = Zero
    /\ i = 0
    /\ forecasts = <<>>
    /\ total_predicted = Zero
    /\ result = [forecasts |-> <<>>, total_predicted |-> Zero,
                 slope |-> Zero, intercept |-> Zero]

\* run_tests' "perfect linear data"
simple_data == <<100, 110, 120, 130, 140>>

Init ==
    /\ historical_values \in SeriesOver(0, MaxLen, -MaxVal..MaxVal) \cup {simple_data}
    /\ pc = "linear_regression"
    /\ NotCalled

InitTrend ==
    /\ historical_values \in OneSignSeries
    /\ pc = "predict_next_value"
    /\ NotCalled

LinearRegression ==
    /\ pc = "linear_regression"
    /\ fit' = linear_regression(historical_values)
    /\ pc' = "calculate_confidence"
    /\ UNCHANGED <<historical_values, confidence, prediction, forecast_locals>>

CalculateConfidence ==
    /\ pc = "calculate_confidence"
    /\ confidence' = calculate_confidence(historical_values)
    /\ pc' = "predict_next_value"
    /\ UNCHANGED <<historical_values, fit, prediction, forecast_locals>>

PredictNextValue ==
    /\ pc = "predict_next_value"
    /\ prediction' = predict_next_value(historical_values)
    /\ pc' = "forecast_revenue"
    /\ UNCHANGED <<historical_values, fit, confidence, forecast_locals>>

\* forecast_revenue up to the loop
ForecastEnter ==
    /\ pc = "forecast_revenue"
    /\ \E periods \in 1..MaxPeriods : periods_ahead' = periods
    /\ forecasts' = <<>>
    /\ total_predicted' = Zero
    /\ slope' = linear_regression(historical_values).slope
    /\ intercept' = linear_regression(historical_values).intercept
    /\ std_dev' = standard_deviation(historical_values)
    /\ avg' = Mean(historical_values)
    /\ i' = 1
    /\ pc' = "forecast_loop"
    /\ UNCHANGED <<historical_values, fit, confidence, prediction, result>>

\* one round of the loop
ForecastPeriod ==
    /\ pc = "forecast_loop"
    /\ i <= periods_ahead
    /\ LET next_index == ForecastNextIndex(historical_values, i)
           predicted_value == ForecastPredicted(slope, intercept, next_index)
       IN  /\ forecasts' = Append(forecasts,
                                  [period |-> i,
                                   value |-> Round2(predicted_value),
                                   confidence |-> ForecastConfidence(std_dev, avg, i)])
           /\ total_predicted' = AddToTotal(total_predicted, predicted_value)
    /\ i' = i + 1
    /\ UNCHANGED <<historical_values, pc, fit, confidence, prediction, periods_ahead,
                   slope, intercept, std_dev, avg, result>>

\* the loop is over: build the returned dictionary
ForecastReturn ==
    /\ pc = "forecast_loop"
    /\ i > periods_ahead
    /\ result' = [forecasts |-> forecasts,
                  total_predicted |-> Round2(total_predicted),
                  slope |-> slope,
                  intercept |-> intercept]
    /\ pc' = "done"
    /\ UNCHANGED <<historical_values, fit, confidence, prediction, periods_ahead,
                   slope, intercept, std_dev, avg, i, forecasts, total_predicted>>

Next ==
    \/ LinearRegression
    \/ CalculateConfidence
    \/ PredictNextValue
    \/ ForecastEnter
    \/ ForecastPeriod
    \/ ForecastReturn

Spec == Init /\ [][Next]_vars

\* The trend classification alone, on one-sign series long enough for it.
NextTrend == PredictNextValue

SpecTrend == InitTrend /\ [][NextTrend]_vars

----------------------------------------------------------------------------
\* Properties

n_values == Len(historical_values)
RegressionReturned == fit.guard # "not_called"
PredictionReturned == prediction.trend # "not_called"
ForecastReturned == pc = "done"

\* The line of the returned fit at index x, before any clamping.
LineAt(x) == RAdd(RMul(result.slope, RInt(x)), result.intercept)

\* C1: every forecast 'value' and predict_next_value's 'predicted_value' is >= 0,
\* for every series and every periods_ahead, also where the fitted line is
\* below zero.
C1_NonNegative ==
    /\ \A k \in 1..Len(forecasts) : RLeq(Zero, forecasts[k].value)
    /\ \A k \in 1..Len(result.forecasts) : RLeq(Zero, result.forecasts[k].value)
    /\ RLeq(Zero, prediction.predicted_value)

C1_Witness ==
    /\ ForecastReturned
    /\ n_values >= 3
    /\ RLess(LineAt(n_values), Zero)
    /\ result.forecasts[1].value = Zero
    /\ prediction.predicted_value = Zero

\* C2: calculate_confidence returns an integer in 0..100, and so is every
\* 'confidence' of forecast_revenue and predict_next_value.
C2_ConfidenceInRange ==
    /\ confidence \in 0..100
    /\ prediction.confidence \in 0..100
    /\ \A k \in 1..Len(forecasts) : forecasts[k].confidence \in 0..100
    /\ \A k \in 1..Len(result.forecasts) : result.forecasts[k].confidence \in 0..100

\* a negative mean with dispersion: the unclamped score is above 100
C2_Witness ==
    /\ ForecastReturned
    /\ Sum(historical_values, n_values) < 0
    /\ \E k \in 1..n_values : historical_values[k] # historical_values[1]
    /\ confidence = 100
    /\ prediction.confidence = 100
    /\ result.forecasts[1].confidence = 100

\* C3: with a nonzero mean, the forecast confidences never increase from one
\* period to the next.
C3_ConfidenceNonIncreasing ==
    (n_values > 0 /\ Sum(historical_values, n_values) # 0) =>
        /\ \A k \in 1..(Len(forecasts) - 1) :
               forecasts[k + 1].confidence <= forecasts[k].confidence
        /\ \A k \in 1..(Len(result.forecasts) - 1) :
               result.forecasts[k + 1].confidence <= result.forecasts[k].confidence

C3_Witness ==
    /\ ForecastReturned
    /\ periods_ahead >= 2
    /\ Sum(historical_values, n_values) # 0
    /\ result.forecasts[1].confidence \in 1..99
    /\ result.forecasts[2].confidence < result.forecasts[1].confidence

\* The sum over periods 1..k of the unrounded predicted values, each clamped at 0.
RECURSIVE UnroundedTotal(_)
UnroundedTotal(k) ==
    IF k = 0 THEN Zero
    ELSE RAdd(UnroundedTotal(k - 1), RMax(Zero, LineAt(n_values + k - 1)))

RECURSIVE SumOfValues(_, _)
SumOfValues(fs, k) ==
    IF k = 0 THEN Zero ELSE RAdd(SumOfValues(fs, k - 1), fs[k].value)

\* C4: total_predicted is the sum of the unrounded clamped per-period values,
\* rounded once to 2 decimals (and not the sum of the rounded 'value' fields).
C4_TotalIsRoundedSum ==
    ForecastReturned =>
        /\ Len(result.forecasts) = periods_ahead
        /\ result.total_predicted =
               Rat(RRound(RMul(UnroundedTotal(periods_ahead), RInt(100))), 100)

\* the two totals differ
C4_Witness ==
    /\ ForecastReturned
    /\ result.total_predicted # SumOfValues(result.forecasts, Len(result.forecasts))

\* C5: a series of fewer than 3 elements gets the fixed degenerate prediction.
C5_ShortSeriesDegenerate ==
    (PredictionReturned /\ n_values < 3) =>
        prediction = [predicted_value |-> Zero, confidence |-> 0, trend |-> "stable",
                      slope |-> Zero, intercept |-> Zero]

C5_Witness ==
    /\ PredictionReturned
    /\ n_values = 2
    /\ historical_values[1] > 0
    /\ historical_values[2] > historical_values[1]
    /\ prediction.trend = "stable"
    /\ prediction.predicted_value = Zero

\* C6 as stated: an empty or 1-element series gives slope 0, intercept 0 and
\* confidence 0 in every forecast entry.
C6_ShortForecastAllZero ==
    (ForecastReturned /\ n_values < 2) =>
        /\ result.slope = Zero
        /\ result.intercept = Zero
        /\ \A k \in 1..Len(result.forecasts) : result.forecasts[k].confidence = 0

\* C6 amended: slope 0 and intercept 0; the confidences are 0 for the empty
\* series and for a single 0, and round(100 * 0.9^(i-1)) for a single nonzero
\* element.
C6_ShortForecast ==
    (ForecastReturned /\ n_values < 2) =>
        /\ result.slope = Zero
        /\ result.intercept = Zero
        /\ Len(result.forecasts) = periods_ahead
        /\ \A k \in 1..Len(result.forecasts) :
               result.forecasts[k].confidence =
                   IF n_values = 1 /\ historical_values[1] # 0
                   THEN RRound(RMul(RInt(100), RPow(Rat(9, 10), k - 1)))
                   ELSE 0

C6_Witness ==
    /\ ForecastReturned
    /\ n_values = 1
    /\ historical_values[1] # 0
    /\ periods_ahead >= 2
    /\ result.forecasts[1].confidence = 100
    /\ result.forecasts[2].confidence = 90

\* mean of the series times 20, and the slope times 20 * n, as integers:
\* slope = 0.05 * mean  iff  20 * n * slope = sum.
SlopeTimes20n == RMul(prediction.slope, RInt(20 * n_values))
SumAsRat == RInt(Sum(historical_values, n_values))

\* C7 as stated: with 3 or more elements, a slope of exactly 0.05 times the
\* mean is 'stable' and a slope above it is 'increasing'.
C7_TrendBoundary ==
    (PredictionReturned /\ n_values >= 3) =>
        /\ (SlopeTimes20n = SumAsRat => prediction.trend = "stable")
        /\ (RLess(SumAsRat, SlopeTimes20n) => prediction.trend = "increasing")

\* C7 amended: the same, the first half for a mean that is not negative.
C7_TrendBoundaryNonNegMean ==
    (PredictionReturned /\ n_values >= 3) =>
        /\ (SlopeTimes20n = SumAsRat /\ SumAsRat.num >= 0 => prediction.trend = "stable")
        /\ (RLess(SumAsRat, SlopeTimes20n) => prediction.trend = "increasing")

C7_Witness ==
    /\ PredictionReturned
    /\ n_values >= 3
    /\ SumAsRat.num > 0
    /\ SlopeTimes20n = SumAsRat
    /\ prediction.trend = "stable"

\* historical_values[k] = a + b*(k-1) for every k
IsLinear(a, b) == \A k \in 1..n_values : historical_values[k] = a + b * (k - 1)

\* C8: on an exactly linear series a + b*i of 2 or more elements the fit is
\* slope b, intercept a; with 3 or more elements and a + b*n >= 0 the
\* prediction is a + b*n.
C8_ExactOnLinear ==
    n_values >= 2 =>
        LET a == historical_values[1]
            b == historical_values[2] - historical_values[1]
        IN  IsLinear(a, b) =>
                /\ RegressionReturned =>
                       fit.slope = RInt(b) /\ fit.intercept = RInt(a)
                /\ (PredictionReturned /\ n_values >= 3 /\ a + b * n_values >= 0) =>
                       prediction.predicted_value = RInt(a + b * n_values)

C8_Witness ==
    /\ historical_values = simple_data
    /\ RegressionReturned
    /\ PredictionReturned
    /\ fit.slope = RInt(10)
    /\ fit.intercept = RInt(100)
    /\ prediction.predicted_value = RInt(150)

\* C9: with 2 or more elements the denominator is positive, so the
\* 'denominator == 0' return is never taken; (0, 0) comes from a guard only
\* for fewer than 2 elements.
C9_DenominatorPositive ==
    RegressionReturned =>
        /\ fit.guard # "denominator_zero"
        /\ fit.guard = "too_short" <=> n_values < 2
        /\ n_values >= 2 => Denominator(historical_values) > 0

C9_Witness ==
    /\ RegressionReturned
    /\ n_values >= 3
    /\ fit.guard = "none"
    /\ fit.slope = Zero
    /\ fit.intercept = Zero

\* C10: for 3 or more elements the first forecast period agrees with
\* predict_next_value: same slope and intercept, value = predicted_value
\* rounded to 2 decimals, confidence = calculate_confidence(series).
C10_FirstPeriodAgrees ==
    (ForecastReturned /\ n_values >= 3) =>
        /\ result.slope = prediction.slope
        /\ result.intercept = prediction.intercept
        /\ result.forecasts[1].value =
               Rat(RRound(RMul(prediction.predicted_value, RInt(100))), 100)
        /\ result.forecasts[1].confidence = prediction.confidence
        /\ prediction.confidence = confidence

C10_Witness ==
    /\ ForecastReturned
    /\ n_values >= 3
    /\ result.forecasts[1].confidence \in 1..99
    /\ result.forecasts[1].confidence = prediction.confidence
    /\ RLess(Zero, prediction.predicted_value)
    /\ result.forecasts[1].value # prediction.predicted_value

====
